---- MODULE Spec2Model ----
(***************************************************************************)
(* Model of src/App.tsx: the App component that wires the camera, the      *)
(* capture timer, the live session client (LiveApiService) and the two     *)
(* pieces of React state, particleState and connection.                    *)
(*                                                                         *)
(* Every action is one JavaScript task or microtask chain: code between    *)
(* two awaits runs without interleaving, and the continuation of an await  *)
(* on an already settled promise runs in the same step as the code that    *)
(* settled it.                                                             *)
(*                                                                         *)
(* services/liveApiService is not part of the sources at hand.  The        *)
(* session client is therefore modelled from the specification (section    *)
(* 4.1 and section 5): its four states, the closed-flag check before every *)
(* callback, and sendFrame being a no-op outside Active.  Where the        *)
(* specification leaves the client open the model says so at the           *)
(* definition.                                                             *)
(***************************************************************************)
EXTENDS Integers, Sequences, FiniteSets, TLC

\* ------------------------------------------------------------------ bounds

\* startStream invocations (Start clicks) in a run of the lifecycle.
MaxStarts == 2
\* startStream invocations in a run of the capture loop against the lifecycle.
CaptureStarts == 1
\* capture ticks in a run.
MaxTicks == 2
\* inbound messages simultaneously in flight between transport and client.
MaxInflight == 1

\* Identifiers of startStream invocations.  An invocation's MediaStream, its
\* interval timer and the session its connect() opens carry the same id.
Tasks == 1 .. MaxStarts

\* --------------------------------------------------------------- constants

\* connection.error === null
Null == "<null>"

\* The fields of ParticleState (INITIAL_STATE's keys).
Fields == {"shape", "expansion", "colorPalette", "speed", "rotationSpeed"}

\* Two values per field: the initial one and another one.
FieldValues(f) ==
  CASE f = "shape" -> {"sphere", "heart"}
    [] f = "expansion" -> {"1.0", "2.5"}
    [] f = "colorPalette" -> {"neon", "fire"}
    [] f = "speed" -> {"0.5", "1.5"}
    [] f = "rotationSpeed" -> {"0.2", "0.9"}

INITIAL_STATE ==
  [shape |-> "sphere", expansion |-> "1.0", colorPalette |-> "neon",
   speed |-> "0.5", rotationSpeed |-> "0.2"]

AllValues == UNION {FieldValues(f) : f \in Fields}

\* Every ParticleState over the field values above.
ParticleStates == {s \in [Fields -> AllValues] : \A f \in Fields : s[f] \in FieldValues(f)}

\* Partial<ParticleState>: a value for any subset of the fields.
PartialUpdates ==
  UNION {{u \in [D -> AllValues] : \A f \in D : u[f] \in FieldValues(f)} : D \in SUBSET Fields}

\* Marks a field that no update has specified yet.
Unspecified == "<unspecified>"

\* A descriptive reason the client gives for a failed connect().
Reasons == {"permission denied", "rate limited"}

\* err.message of a rejected getUserMedia() or play(): possibly empty.
ErrMessages == {"", "permission denied"}

\* The reason an inbound error message carries.
InboundReasons == {"rate limited"}

\* The message of the rejection a client gives a re-entered connect().
ReentryMessage == "connect already in progress"

\* The inbound state update the transport pushes: two of the five fields.
InboundUpdates == {[shape |-> "heart", expansion |-> "2.5"]}

\* The empty partial update (an error message carries no fields).
NoFields == [f \in {} |-> Unspecified]

\* Inbound messages: { type: "state-update", fields } | { type: "error", reason }
InboundBodies ==
  {[type |-> "state-update", fields |-> u, reason |-> ""] : u \in InboundUpdates}
    \cup {[type |-> "error", fields |-> NoFields, reason |-> r] : r \in InboundReasons}


VARIABLES
  particleState,    \* useState particleState
  initialState,     \* the ParticleState the component was created with (S0)
  lastSpecified,    \* history: per field, the value of the last update holding it
  connection,       \* useState connection
  mounted,          \* the component is mounted (videoRef/canvasRef are set)
  pc,               \* per startStream invocation: where it is suspended
  streamRef,        \* streamRef.current: id of a MediaStream, 0 for null
  liveTracks,       \* MediaStreams whose tracks have not been stopped
  frameIntervalRef, \* frameIntervalRef.current: id of a timer, 0 for null
  timers,           \* interval timers that are running
  clientState,      \* session client: Idle, Connecting, Active or Closed
  session,          \* the invocation whose connect() made the handle, 0 for none
  inflight,         \* inbound messages pushed by the transport, not yet delivered
  frames,           \* per capture tick: the stage its frame is in
  outbound,         \* ticks whose frame went out on the transport, in send order
  stopped,          \* history: stopStream ran and startStream was not invoked since
  connectCalls      \* history: how many times connect() has been invoked

appVars == <<connection, mounted, pc, streamRef, liveTracks, frameIntervalRef, timers,
             clientState, session, inflight, frames, outbound, stopped, connectCalls>>

vars == <<particleState, initialState, lastSpecified, appVars>>

\* --------------------------------------------------------- pure functions

\* A mis-ordered spread, { ...update, ...prev }: the previous state wins.
handleStateUpdatePrevWins(prev, update) ==
  [f \in (DOMAIN prev) \cup (DOMAIN update) |->
     IF f \in DOMAIN prev THEN prev[f] ELSE update[f]]

\* setParticleState(prev => ({ ...prev, ...update }))
handleStateUpdate(prev, update) ==
  [f \in (DOMAIN prev) \cup (DOMAIN update) |->
     IF f \in DOMAIN update THEN update[f] ELSE prev[f]]

\* A handleError that resets the flags and loses the reason.
handleErrorDropsReason(prev, error) ==
  [prev EXCEPT !.isConnected = FALSE, !.isStreaming = FALSE]

\* A handleError that records the reason and leaves isConnected as it was.
handleErrorKeepsConnected(prev, error) ==
  [prev EXCEPT !.error = error, !.isStreaming = FALSE]

\* setConnection(prev => ({ ...prev, error, isConnected: false, isStreaming: false }))
handleError(prev, error) ==
  [prev EXCEPT !.error = error, !.isConnected = FALSE, !.isStreaming = FALSE]

\* err.message || 'Failed to access camera'
CatchMessage(message) == IF message = "" THEN "Failed to access camera" ELSE message

\* A state update of a component that is no longer mounted is dropped.
SetConnection(c) == IF mounted THEN c ELSE connection

\* setConnection({ isConnected: false, isStreaming: true, error: null })
StartingConnection == [isConnected |-> FALSE, isStreaming |-> TRUE, error |-> Null]

\* setConnection({ isConnected: false, isStreaming: false, error: null })
StoppedConnection == [isConnected |-> FALSE, isStreaming |-> FALSE, error |-> Null]

\* ---------------------------------------------- session client (from the spec)

\* A disconnect() that is not idempotent: called on a Closed client it
\* resets the client to Idle.
ClientDisconnectResets(cs) == IF cs \in {"Connecting", "Active"} THEN "Closed" ELSE "Idle"

\* disconnect(): Active or Connecting -> Closed; from Idle or Closed a no-op.
ClientDisconnect(cs) == IF cs \in {"Connecting", "Active"} THEN "Closed" ELSE cs

\* connect() may be entered from Idle or from Closed (the client is reusable).
ClientFree(cs) == cs \in {"Idle", "Closed"}

\* sendFrame is legal only in Active.
ClientSends(cs) == cs = "Active"

\* The closed-flag check before a callback: the message belongs to the
\* session that is Active now.
ClientDelivers(cs, cur, m) == cs = "Active" /\ m.session = cur

\* ------------------------------------------------------------------- Init

\* useState<LiveConnectionState>({ isConnected: false, isStreaming: false, error: null })
InitConnection == [isConnected |-> FALSE, isStreaming |-> FALSE, error |-> Null]

\* The component after its first render and mount effect: liveApiRef.current
\* holds a fresh client, nothing else has run.
InitApp ==
  /\ connection = InitConnection
  /\ mounted = TRUE
  /\ pc = [t \in Tasks |-> "new"]
  /\ streamRef = 0
  /\ liveTracks = {}
  /\ frameIntervalRef = 0
  /\ timers = {}
  /\ clientState = "Idle"
  /\ session = 0
  /\ inflight = {}
  /\ frames = <<>>
  /\ outbound = <<>>
  /\ stopped = FALSE
  /\ connectCalls = 0

Init ==
  /\ initialState = INITIAL_STATE
  /\ particleState = initialState
  /\ lastSpecified = [f \in Fields |-> Unspecified]
  /\ InitApp

\* The merge taken alone: any initial ParticleState.
InitMerge ==
  /\ initialState \in ParticleStates
  /\ particleState = initialState
  /\ lastSpecified = [f \in Fields |-> Unspecified]
  /\ InitApp

\* ---------------------------------------------------------------- actions

\* handleStateUpdate called with one partial update, recording the history.
ApplyUpdate(u) ==
  /\ particleState' = handleStateUpdate(particleState, u)
  /\ lastSpecified' = [f \in Fields |-> IF f \in DOMAIN u THEN u[f] ELSE lastSpecified[f]]
  /\ UNCHANGED <<initialState, appVars>>

\* ------------------------------------------------------------ startStream

\* Lines 51-55: a click on Start Camera (rendered while !connection.isStreaming)
\* invokes startStream, which sets the connection state and suspends in
\* getUserMedia().  Invocations are numbered in click order.
StartStream(t) ==
  /\ mounted
  /\ ~connection.isStreaming
  /\ pc[t] = "new"
  /\ \A u \in Tasks : u < t => pc[u] # "new"
  /\ connection' = StartingConnection
  /\ pc' = [pc EXCEPT ![t] = "gum"]
  /\ stopped' = FALSE
  /\ UNCHANGED <<particleState, initialState, lastSpecified, connectCalls, mounted,
                 streamRef, liveTracks,
                 frameIntervalRef, timers, clientState, session, inflight, frames, outbound>>

\* Lines 85-87: the catch block, handleError(err.message || 'Failed to access camera').
CatchError(t, message) ==
  /\ connection' = SetConnection(handleError(connection, CatchMessage(message)))
  /\ pc' = [pc EXCEPT ![t] = "done"]

\* Lines 67-83, run once connect() has resolved: isConnected becomes true and,
\* with a 2d context and a video element, the capture timer is started and
\* recorded in frameIntervalRef.
AfterConnect(t) ==
  /\ connection' = SetConnection([connection EXCEPT !.isConnected = TRUE])
  /\ IF mounted
       THEN frameIntervalRef' = t /\ timers' = timers \cup {t}
       ELSE UNCHANGED <<frameIntervalRef, timers>>
  /\ pc' = [pc EXCEPT ![t] = "done"]

\* Line 66, connect() entered while the client is Idle or Closed: the client
\* goes to Connecting and startStream suspends.
ConnectEnter(t) ==
  /\ ClientFree(clientState)
  /\ clientState' = "Connecting"
  /\ session' = t
  /\ pc' = [pc EXCEPT ![t] = "connect"]
  /\ UNCHANGED <<connection, frameIntervalRef, timers>>

\* Line 66, connect() entered while the client is Connecting or Active and
\* the client rejects the call: the catch block runs in the same step.
ConnectReenterRejected(t) ==
  /\ ~ClientFree(clientState)
  /\ CatchError(t, ReentryMessage)
  /\ UNCHANGED <<clientState, session, frameIntervalRef, timers>>

\* Line 66, connect() entered while the client is Connecting or Active and
\* the call is a no-op that resolves: lines 67-83 run in the same step.
ConnectReenterNoop(t) ==
  /\ ~ClientFree(clientState)
  /\ AfterConnect(t)
  /\ UNCHANGED <<clientState, session>>

\* Line 66: liveApiRef.current?.connect().  The specification leaves a call
\* made while Connecting or Active to the implementer (reject it or make it
\* a no-op), so both outcomes are possible.
CallConnect(t) ==
  /\ connectCalls' = connectCalls + 1
  /\ \/ ConnectEnter(t)
     \/ ConnectReenterRejected(t)
     \/ ConnectReenterNoop(t)

\* Lines 55-63 with the component mounted: getUserMedia() resolves, the stream
\* is stored in streamRef and on the video element, and startStream suspends
\* in play().
GumResolve(t) ==
  /\ pc[t] = "gum"
  /\ mounted
  /\ streamRef' = t
  /\ liveTracks' = liveTracks \cup {t}
  /\ pc' = [pc EXCEPT ![t] = "play"]
  /\ UNCHANGED <<particleState, initialState, lastSpecified, connectCalls, connection, mounted,
                 frameIntervalRef, timers, clientState, session, inflight, frames,
                 outbound, stopped>>

\* Lines 55-66 after unmount: videoRef.current is null, play() is skipped and
\* connect() is called in the same step.
GumResolveDetached(t) ==
  /\ pc[t] = "gum"
  /\ ~mounted
  /\ streamRef' = t
  /\ liveTracks' = liveTracks \cup {t}
  /\ CallConnect(t)
  /\ UNCHANGED <<particleState, initialState, lastSpecified, mounted, inflight, frames,
                 outbound, stopped>>

\* Lines 55 and 85-87: getUserMedia() rejects.
GumReject(t, message) ==
  /\ pc[t] = "gum"
  /\ CatchError(t, message)
  /\ UNCHANGED <<particleState, initialState, lastSpecified, connectCalls, mounted,
                 streamRef, liveTracks,
                 frameIntervalRef, timers, clientState, session, inflight, frames,
                 outbound, stopped>>

\* Lines 63-66: play() resolves and connect() is called.
PlayResolve(t) ==
  /\ pc[t] = "play"
  /\ CallConnect(t)
  /\ UNCHANGED <<particleState, initialState, lastSpecified, mounted, streamRef, liveTracks,
                 inflight, frames, outbound, stopped>>

\* A rejected play() that is swallowed: startStream goes on to connect().
PlayRejectIgnored(t, message) ==
  /\ pc[t] = "play"
  /\ CallConnect(t)
  /\ UNCHANGED <<particleState, initialState, lastSpecified, mounted, streamRef, liveTracks,
                 inflight, frames, outbound, stopped>>

\* Lines 63 and 85-87: play() rejects.
PlayReject(t, message) ==
  /\ pc[t] = "play"
  /\ CatchError(t, message)
  /\ UNCHANGED <<particleState, initialState, lastSpecified, connectCalls, mounted,
                 streamRef, liveTracks,
                 frameIntervalRef, timers, clientState, session, inflight, frames,
                 outbound, stopped>>

\* The invocation is suspended in a connect() that is in flight.
PendingConnect(t) == pc[t] = "connect" /\ clientState = "Connecting" /\ session = t

\* Lines 66-83: the connect() this invocation is suspended in succeeds.  The
\* client becomes Active and the continuation runs.  A connect() that was
\* in flight when disconnect() ran is abandoned: it settles no more (the
\* specification says what the client's state is, not what becomes of the
\* promise; see PendingConnect).
ConnectSucceed(t) ==
  /\ PendingConnect(t)
  /\ clientState' = "Active"
  /\ AfterConnect(t)
  /\ UNCHANGED <<particleState, initialState, lastSpecified, connectCalls, mounted,
                 streamRef, liveTracks,
                 session, inflight, frames, outbound, stopped>>

\* A failing connect() after which startStream connects again by itself.
ConnectFailRetries(t, r) ==
  /\ PendingConnect(t)
  /\ connection' = SetConnection(handleError(handleError(connection, r), CatchMessage(r)))
  /\ connectCalls' = connectCalls + 1
  /\ UNCHANGED <<particleState, initialState, lastSpecified, mounted, pc, streamRef, liveTracks,
                 frameIntervalRef, timers, clientState, session, inflight, frames,
                 outbound, stopped>>

\* Lines 66 and 85-87: the connect() this invocation is suspended in fails
\* with reason r.  The client goes to Closed and invokes the error callback
\* (handleError) with r; the promise rejects with an error whose message is
\* r, and the catch block calls handleError again.
ConnectFail(t, r) ==
  /\ PendingConnect(t)
  /\ clientState' = "Closed"
  /\ session' = 0
  /\ connection' = SetConnection(handleError(handleError(connection, r), CatchMessage(r)))
  /\ pc' = [pc EXCEPT ![t] = "done"]
  /\ UNCHANGED <<particleState, initialState, lastSpecified, connectCalls, mounted,
                 streamRef, liveTracks,
                 frameIntervalRef, timers, inflight, frames, outbound, stopped>>

\* ------------------------------------------------- stopStream and unmount

\* Every message in flight at a disconnect() is marked: it was pushed for a
\* session that has been disconnected.
MarkLate(msgs) == {[m EXCEPT !.late = TRUE] : m \in msgs}

\* Lines 91-94 and 96 of stopStream: clear the timer in frameIntervalRef, stop
\* the tracks of the stream in streamRef, reset the connection state.
\* Neither ref is set back to null.
StopStreamLocal ==
  /\ timers' = IF frameIntervalRef # 0 THEN timers \ {frameIntervalRef} ELSE timers
  /\ liveTracks' = IF streamRef # 0 THEN liveTracks \ {streamRef} ELSE liveTracks
  /\ inflight' = MarkLate(inflight)
  /\ connection' = StoppedConnection
  /\ stopped' = TRUE

\* A stopStream with line 95 left out: the client is not disconnected.
StopStreamKeepsSession ==
  /\ mounted
  /\ connection.isStreaming
  /\ StopStreamLocal
  /\ UNCHANGED <<particleState, initialState, lastSpecified, connectCalls, mounted, pc,
                 streamRef,
                 frameIntervalRef, frames, outbound, clientState, session>>

\* A stopStream that also puts the particles back to INITIAL_STATE.
StopStreamResetsParticles ==
  /\ mounted
  /\ connection.isStreaming
  /\ StopStreamLocal
  /\ clientState' = ClientDisconnect(clientState)
  /\ session' = 0
  /\ particleState' = INITIAL_STATE
  /\ UNCHANGED <<initialState, lastSpecified, connectCalls, mounted, pc, streamRef,
                 frameIntervalRef, frames, outbound>>

\* Lines 90-97: a click on Stop (rendered while connection.isStreaming) runs
\* stopStream, which also disconnects the client (line 95).
StopStream ==
  /\ mounted
  /\ connection.isStreaming
  /\ StopStreamLocal
  /\ clientState' = ClientDisconnect(clientState)
  /\ session' = 0
  /\ UNCHANGED <<particleState, initialState, lastSpecified, connectCalls, mounted, pc,
                 streamRef,
                 frameIntervalRef, frames, outbound>>

\* Lines 45-48, the effect's cleanup at unmount: stopStream(), then
\* disconnect() once more.
Unmount ==
  /\ mounted
  /\ StopStreamLocal
  /\ clientState' = ClientDisconnect(ClientDisconnect(clientState))
  /\ session' = 0
  /\ mounted' = FALSE
  /\ UNCHANGED <<particleState, initialState, lastSpecified, connectCalls, pc, streamRef,
                 frameIntervalRef, frames, outbound>>

\* ------------------------------------------------------- inbound messages

\* The transport pushes a message for the Active session.
TransportPush(body) ==
  /\ clientState = "Active"
  /\ Cardinality(inflight) < MaxInflight
  /\ LET m == [session |-> session, late |-> FALSE, body |-> body]
     IN /\ m \notin inflight
        /\ inflight' = inflight \cup {m}
  /\ UNCHANGED <<particleState, initialState, lastSpecified, connectCalls, connection,
                 mounted, pc,
                 streamRef, liveTracks, frameIntervalRef, timers, clientState, session,
                 frames, outbound, stopped>>

\* The client receives a state update for the session that is Active and
\* forwards the fields to handleStateUpdate (lines 35-37).
DeliverUpdate(m) ==
  /\ m \in inflight
  /\ m.body.type = "state-update"
  /\ ClientDelivers(clientState, session, m)
  /\ inflight' = inflight \ {m}
  /\ particleState' = IF mounted THEN handleStateUpdate(particleState, m.body.fields)
                                 ELSE particleState
  /\ UNCHANGED <<initialState, lastSpecified, connectCalls, connection, mounted, pc,
                 streamRef, liveTracks,
                 frameIntervalRef, timers, clientState, session, frames, outbound, stopped>>

\* The client receives an error message for the session that is Active: the
\* session goes to Closed and handleError (lines 39-41) gets the reason.
DeliverError(m) ==
  /\ m \in inflight
  /\ m.body.type = "error"
  /\ ClientDelivers(clientState, session, m)
  /\ inflight' = inflight \ {m}
  /\ clientState' = "Closed"
  /\ session' = 0
  /\ connection' = SetConnection(handleError(connection, m.body.reason))
  /\ UNCHANGED <<particleState, initialState, lastSpecified, connectCalls, mounted, pc,
                 streamRef,
                 liveTracks, frameIntervalRef, timers, frames, outbound, stopped>>

\* A message for a session that is no longer Active is dropped by the
\* closed-flag check: no callback.
DropMessage(m) ==
  /\ m \in inflight
  /\ ~ClientDelivers(clientState, session, m)
  /\ inflight' = inflight \ {m}
  /\ UNCHANGED <<particleState, initialState, lastSpecified, connectCalls, connection,
                 mounted, pc,
                 streamRef, liveTracks, frameIntervalRef, timers, clientState, session,
                 frames, outbound, stopped>>

\* ------------------------------------------------------------ capture loop

\* The variables no step of the capture loop writes but frames and outbound.
captureFrame == <<particleState, initialState, lastSpecified, connectCalls, connection,
                  mounted, pc,
                  streamRef, liveTracks, frameIntervalRef, timers, clientState, session,
                  inflight, stopped>>

\* A thrown drawImage that also cancels the timer.
TickDrawThrowsStopsLoop(k) ==
  /\ k \in timers
  /\ Len(frames) < MaxTicks
  /\ mounted
  /\ frames' = Append(frames, "failed")
  /\ timers' = timers \ {k}
  /\ UNCHANGED <<particleState, initialState, lastSpecified, connectCalls, connection,
                 mounted, pc,
                 streamRef, liveTracks, frameIntervalRef, clientState, session,
                 inflight, stopped, outbound>>

\* A tick that waits until the frames of the earlier ticks have been handled.
TickAwaitsPending(k) ==
  /\ k \in timers
  /\ Len(frames) < MaxTicks
  /\ \A n \in DOMAIN frames : frames[n] \notin {"blob", "base64"}
  /\ frames' = Append(frames, IF mounted THEN "blob" ELSE "skipped")
  /\ UNCHANGED <<captureFrame, outbound>>

\* Lines 72-76: a tick of running timer k.  With the video element present it
\* draws the frame and asks the canvas for a JPEG blob; after unmount
\* videoRef.current is null and the tick returns at line 73.
Tick(k) ==
  /\ k \in timers
  /\ Len(frames) < MaxTicks
  /\ frames' = Append(frames, IF mounted THEN "blob" ELSE "skipped")
  /\ UNCHANGED <<captureFrame, outbound>>

\* Lines 72-75: drawImage throws; the async callback's promise rejects and
\* nobody handles it.
TickDrawThrows(k) ==
  /\ k \in timers
  /\ Len(frames) < MaxTicks
  /\ mounted
  /\ frames' = Append(frames, "failed")
  /\ UNCHANGED <<captureFrame, outbound>>

\* Lines 76-78: toBlob calls back with a blob; blobToBase64 starts.
BlobReady(n) ==
  /\ frames[n] = "blob"
  /\ frames' = [frames EXCEPT ![n] = "base64"]
  /\ UNCHANGED <<captureFrame, outbound>>

\* Lines 76-77: toBlob calls back with null; nothing is sent.
BlobNull(n) ==
  /\ frames[n] = "blob"
  /\ frames' = [frames EXCEPT ![n] = "failed"]
  /\ UNCHANGED <<captureFrame, outbound>>

\* sendVideoFrame of a client that does not check its state.
SendVideoFrameUnguarded(n) ==
  /\ frames' = [frames EXCEPT ![n] = "sent"]
  /\ outbound' = Append(outbound, n)

\* sendVideoFrame(base64): one outbound send in Active, a no-op otherwise.
SendVideoFrame(n) ==
  IF ClientSends(clientState)
    THEN /\ frames' = [frames EXCEPT ![n] = "sent"]
         /\ outbound' = Append(outbound, n)
    ELSE /\ frames' = [frames EXCEPT ![n] = "dropped"]
         /\ UNCHANGED outbound

\* Lines 78-79: blobToBase64 resolves and the frame is handed to sendVideoFrame.
Base64Resolve(n) ==
  /\ frames[n] = "base64"
  /\ SendVideoFrame(n)
  /\ UNCHANGED captureFrame

\* A rejected blobToBase64 that is reported through handleError.
Base64RejectSurfaced(n) ==
  /\ frames[n] = "base64"
  /\ frames' = [frames EXCEPT ![n] = "failed"]
  /\ connection' = SetConnection(handleError(connection, "Failed to encode frame"))
  /\ UNCHANGED <<particleState, initialState, lastSpecified, connectCalls, mounted, pc,
                 streamRef,
                 liveTracks, frameIntervalRef, timers, clientState, session, inflight,
                 stopped, outbound>>

\* Line 78: blobToBase64 rejects; the toBlob callback's promise rejects and
\* nobody handles it.
Base64Reject(n) ==
  /\ frames[n] = "base64"
  /\ frames' = [frames EXCEPT ![n] = "failed"]
  /\ UNCHANGED <<captureFrame, outbound>>

\* ------------------------------------------------------------------- Next

\* The session lifecycle: startStream's steps for invocations 1..starts, the
\* Stop click, unmount, and the inbound messages.
Lifecycle(starts) ==
  \/ \E t \in 1 .. starts : StartStream(t)
  \/ \E t \in 1 .. starts : GumResolve(t)
  \/ \E t \in 1 .. starts : GumResolveDetached(t)
  \/ \E t \in 1 .. starts, message \in ErrMessages : GumReject(t, message)
  \/ \E t \in 1 .. starts : PlayResolve(t)
  \/ \E t \in 1 .. starts, message \in ErrMessages : PlayReject(t, message)
  \/ \E t \in 1 .. starts : ConnectSucceed(t)
  \/ \E t \in 1 .. starts, r \in Reasons : ConnectFail(t, r)
  \/ StopStream
  \/ Unmount
  \/ \E body \in InboundBodies : TransportPush(body)
  \/ \E m \in inflight : DeliverUpdate(m)
  \/ \E m \in inflight : DeliverError(m)
  \/ \E m \in inflight : DropMessage(m)

\* The capture loop: the ticks of the running timers and the asynchronous
\* completions of each tick's frame.
Capture ==
  \/ \E k \in timers : Tick(k)
  \/ \E k \in timers : TickDrawThrows(k)
  \/ \E n \in DOMAIN frames : BlobReady(n)
  \/ \E n \in DOMAIN frames : BlobNull(n)
  \/ \E n \in DOMAIN frames : Base64Resolve(n)
  \/ \E n \in DOMAIN frames : Base64Reject(n)

\* The lifecycle taken alone.  No step of the capture loop writes a variable
\* the lifecycle reads (frames and outbound are the loop's own), so leaving
\* the loop out removes no lifecycle behaviour.
Next == Lifecycle(MaxStarts)

Spec == Init /\ [][Next]_vars

\* The capture loop running against the lifecycle.
NextCapture == Lifecycle(CaptureStarts) \/ Capture

SpecCapture == Init /\ [][NextCapture]_vars

\* ------------------------------------------------------------- merge alone

NextMerge == \E u \in PartialUpdates : ApplyUpdate(u)

SpecMerge == InitMerge /\ [][NextMerge]_vars

\* ----------------------------------------------------------------- claims

\* C1: after any sequence of partial updates delivered to handleStateUpdate in
\* arrival order, every field holds the value of the last update that
\* contained it, or the initial state's value if no update contained it;
\* the fields are independent and the state keeps exactly the five fields.
C1_LastWriteWinsPerField ==
  /\ DOMAIN particleState = Fields
  /\ \A f \in Fields :
       particleState[f] =
         IF lastSpecified[f] = Unspecified THEN initialState[f] ELSE lastSpecified[f]

\* C1 witness: some fields were overwritten by updates, another still holds
\* the initial value.
C1_Witness ==
  /\ lastSpecified["shape"] # Unspecified
  /\ lastSpecified["shape"] # initialState["shape"]
  /\ lastSpecified["expansion"] # Unspecified
  /\ lastSpecified["speed"] = Unspecified
  /\ particleState["shape"] = lastSpecified["shape"]
  /\ particleState["speed"] = initialState["speed"]

\* C2: connection.isConnected is true only while the client holds an active
\* session handle, whatever the interleaving of startStream's awaits with
\* stopStream and with error callbacks.
C2_ConnectedOnlyWhileActive == connection.isConnected => clientState = "Active"

C4_NoTickAfterStop == [][stopped => Len(frames') = Len(frames)]_vars

\* C5: sendVideoFrame called while the client is not Active raises nothing,
\* changes neither client nor application state and sends nothing: the
\* frame is dropped.
C5_SendOutsideActiveIsNoop ==
  [][\A n \in DOMAIN frames :
       (frames[n] = "base64" /\ frames'[n] \in {"sent", "dropped"} /\ clientState # "Active") =>
         /\ frames'[n] = "dropped"
         /\ outbound' = outbound
         /\ UNCHANGED captureFrame]_vars

\* C5 witness: a frame whose encode completed after stopStream was dropped,
\* and nothing went out.
C5_Witness ==
  /\ stopped
  /\ clientState = "Closed"
  /\ \E n \in DOMAIN frames : frames[n] = "dropped"
  /\ outbound = <<>>

\* C6: connect() is never invoked while an earlier connect() is in flight or
\* while a session is Active.
C6_ConnectNotReentered ==
  [][\A t \in Tasks :
       (PlayResolve(t) \/ GumResolveDetached(t)) => ClientFree(clientState)]_vars

\* The frame of tick n failed in this step (draw, blob or conversion).
FrameFailsNow(n) ==
  /\ n \in DOMAIN frames'
  /\ frames'[n] = "failed"
  /\ (n \in DOMAIN frames => frames[n] # "failed")

\* C7: a failed capture tick skips only that tick: the failure leaves every
\* timer running and recorded, and a timer stops only in stopStream (Stop
\* click or unmount), never in an error path.
C7_FailedTickKeepsLoop ==
  [][/\ \A n \in 1 .. MaxTicks :
          FrameFailsNow(n) => timers' = timers /\ frameIntervalRef' = frameIntervalRef
     /\ ~(timers \subseteq timers') => stopped' /\ connection' = StoppedConnection]_vars

\* C7 witness: tick 1 failed and the next tick captured and sent its frame.
C7_Witness ==
  /\ Len(frames) = 2
  /\ frames[1] = "failed"
  /\ frames[2] = "sent"
  /\ outbound = <<2>>

\* C8: a per-frame failure never reaches handleError: connection is unchanged.
C8_FrameFailureAbsorbed ==
  [][\A n \in 1 .. MaxTicks : FrameFailsNow(n) => connection' = connection]_vars

\* C8 witness: a frame failed while the UI shows a live connection without error.
C8_Witness ==
  /\ \E n \in DOMAIN frames : frames[n] = "failed"
  /\ connection = [isConnected |-> TRUE, isStreaming |-> TRUE, error |-> Null]

C10_AcquisitionFailureSurfaced ==
  [][\A t \in Tasks, message \in ErrMessages :
       (GumReject(t, message) \/ PlayReject(t, message)) =>
         /\ mounted => /\ connection'.error = CatchMessage(message)
                       /\ connection'.error # Null
                       /\ ~connection'.isConnected
         /\ clientState' = clientState
         /\ session' = session
         /\ pc'[t] = "done"
         /\ timers' = timers]_vars

\* C10 witness: getUserMedia() rejected with an empty message: the fallback
\* text is shown and the client is still Idle.
C10_Witness ==
  /\ mounted
  /\ clientState = "Idle"
  /\ streamRef = 0
  /\ pc[1] = "done"
  /\ connection = [isConnected |-> FALSE, isStreaming |-> FALSE,
                   error |-> "Failed to access camera"]

\* C11: an inbound error message with reason r that reaches the Active
\* session closes it and gives handleError r (error is r, isConnected false);
\* the capture timer is left running, and while the client is not Active no
\* frame goes out, whatever the ticks hand to sendVideoFrame.
C11_InboundErrorClosesSession ==
  [][/\ \A m \in inflight :
          DeliverError(m) =>
            /\ clientState' = "Closed"
            /\ timers' = timers
            /\ mounted => /\ connection'.error = m.body.reason
                          /\ ~connection'.isConnected
     /\ clientState # "Active" => outbound' = outbound]_vars

\* C11 witness: the session was closed by an inbound "rate limited", the timer
\* kept ticking, and the frame of a tick was dropped by sendVideoFrame.
C11_Witness ==
  /\ ~stopped
  /\ mounted
  /\ clientState = "Closed"
  /\ connection.error = "rate limited"
  /\ timers # {}
  /\ \E n \in DOMAIN frames : frames[n] = "dropped"

\* C12: isConnected goes from false to true only in the step in which a
\* connect() succeeds (the client goes from Connecting to Active), so once
\* per successful connect and not again for that session.
C12_ConnectedOncePerConnect ==
  [][(~connection.isConnected /\ connection'.isConnected) =>
       (clientState = "Connecting" /\ clientState' = "Active")]_vars

\* C13: disconnect() is idempotent.  The unmount cleanup, which calls it twice
\* in a row, leaves the client where one call leaves it and fires no
\* callback; called on an Idle or Closed client it changes nothing.
C13_DisconnectIdempotent ==
  [][/\ (mounted /\ ~mounted') =>
          /\ clientState' = IF clientState \in {"Connecting", "Active"}
                              THEN "Closed" ELSE clientState
          /\ particleState' = particleState
          /\ connection' = StoppedConnection
     /\ (stopped' /\ connection' = StoppedConnection /\ clientState \in {"Idle", "Closed"}
           /\ pc' = pc) =>
          clientState' = clientState]_vars

\* C13 witness: the component was unmounted and the client, which had a
\* connect() in flight or had been closed before, is Closed after the two calls.
C13_Witness ==
  /\ ~mounted
  /\ clientState = "Closed"
  /\ pc[1] = "connect"

\* C14: there is no automatic reconnection.  connect() is invoked at most
\* once by each startStream invocation and by nothing else, so the number of
\* connect() invocations never exceeds the number of startStream invocations.
C14_NoAutomaticReconnect ==
  connectCalls <= Cardinality({t \in Tasks : pc[t] # "new"})

\* C14 witness: the one connect() made so far has failed, or its session was
\* closed by an inbound error, with "rate limited"; the client is Closed and
\* no second connect() has been made.
C14_Witness ==
  /\ mounted
  /\ connection.error = "rate limited"
  /\ clientState = "Closed"
  /\ connectCalls = 1
  /\ pc[1] = "done"
  /\ \A t \in Tasks \ {1} : pc[t] = "new"

\* C15: ticks are paced by the timer alone.  While a timer is running its
\* next tick can fire whatever stage the frames of earlier ticks are in: a
\* frame still being encoded or submitted neither delays nor suppresses it.
\* (Len(frames) < MaxTicks is the bound of the model on the number of ticks.)
C15_TickNeverWaits ==
  \A k \in timers : Len(frames) < MaxTicks => ENABLED Tick(k)

\* C15 witness: the work of two ticks overlapped and the frame of the second
\* tick went out before the frame of the first.
C15_Witness ==
  /\ Len(outbound) >= 2
  /\ outbound[1] = 2
  /\ outbound[2] = 1

\* C16: at most one capture interval timer is running, and a running timer
\* is the one recorded in frameIntervalRef.
C16_OneRecordedTimer ==
  /\ Cardinality(timers) <= 1
  /\ \A k \in timers : k = frameIntervalRef

\* C17: isConnected implies isStreaming and implies that error is null.
C17_ConnectedImpliesStreaming ==
  connection.isConnected => (connection.isStreaming /\ connection.error = Null)

\* C18: whenever isStreaming is false no acquired MediaStream has live
\* tracks, and at any time the only stream with live tracks is the one held
\* in streamRef.
C18_StreamsReleased ==
  /\ ~connection.isStreaming => liveTracks = {}
  /\ \A s \in liveTracks : s = streamRef

====
